---- MODULE Spec2Model ----
(***************************************************************************)
(* State-machine model of pptx_handler.PowerpointHandler                   *)
(* (src/src/pptx_handler/pptx_handler.py).                                 *)
(*                                                                         *)
(* A slide is the sequence of its shapes in document order: the children   *)
(* of the slide's shape tree after its two leading group-property nodes,   *)
(* which is what slide.shapes iterates and indexes (0-based in the code,   *)
(* position idx + 1 in the sequences here).  The shape index self.elements *)
(* maps slide number -> (shape name -> 0-based index).                     *)
(***************************************************************************)
EXTENDS Integers, Sequences, FiniteSets, TLC

VARIABLES
    constructed,    \* TRUE once __init__ has returned
    images,         \* powerpoint_images_dir: the ordered list of candidate image paths
    logo_path,      \* self.logo_path
    slides,         \* self.pp: slide number -> sequence of shapes
    elements,       \* self.elements: slide number -> (shape name -> index)
    elements_file,  \* the content of elements.json
    output_file,    \* the presentation last written by save_presentation
    cell_reference, \* the argument of the last __separate_row_column call
    parsed,         \* the result of the last __separate_row_column call
    calls,          \* the number of calls made on the handler so far
    request,        \* the arguments of an add_table_from_excel_range call
    last            \* the last call: its arguments and its outcome, and
                    \* whether every mutator called so far has returned

vars == <<constructed, images, logo_path, slides, elements, elements_file,
          output_file, cell_reference, parsed, calls, request,
          last>>

-----------------------------------------------------------------------------
(* Bounds of the model *)

\* the number of calls made on a handler
MaxCalls == 2

-----------------------------------------------------------------------------
(* Generic helpers *)

Max(S) == CHOOSE m \in S : \A k \in S : k <= m

RemoveAt(seq, p) == SubSeq(seq, 1, p - 1) \o SubSeq(seq, p + 1, Len(seq))

-----------------------------------------------------------------------------
(* The document: shapes and slides *)

\* the string __get_shape_and_slide uses as the default of dict.get
NotFound == "Shape not found"

Geometry(k) == [left |-> k, top |-> 10 + k, width |-> 20 + k, height |-> 30 + k]

\* an auto shape of the template: it has a text frame
TemplateShape(id, name) ==
    [id |-> id, name |-> name, kind |-> "sp", geom |-> Geometry(id),
     text |-> "", image |-> "", cells |-> <<>>]

TemplateSlide(names) == [i \in 1..Len(names) |-> TemplateShape(i + 1, names[i])]

\* The template deck is a file outside the sources: these are the decks the
\* model starts from (slide by slide, the names of the shapes in document
\* order).  The second one carries a name twice on a slide.
Templates ==
    { << <<"logo", "costumer">>, <<"table", "note">> >>,
      << <<"logo">>, <<"table", "note", "table">> >> }

LoadTemplate(t) == [s \in 0..(Len(t) - 1) |-> TemplateSlide(t[s + 1])]

ShapeNames(shapes) == {shapes[i].name : i \in 1..Len(shapes)}

ShapeIds(shapes) == {shapes[i].id : i \in 1..Len(shapes)}

\* the id the library gives the next shape added to a slide: one more than
\* the largest id in use (the shape tree itself has id 1)
next_shape_id(shapes) == Max(ShapeIds(shapes) \cup {1}) + 1

\* slide.shapes.add_picture(path, left, top, width, height): appended last
add_picture(shapes, path, g) ==
    LET id == next_shape_id(shapes)
    IN Append(shapes, [id |-> id, name |-> "Picture " \o ToString(id - 1),
                       kind |-> "pic", geom |-> g, text |-> "",
                       image |-> path, cells |-> <<>>])

\* slide.shapes.add_table(rows, cols, left, top, width, height): appended
\* last, every cell empty
new_table(shapes, rows, cols, g) ==
    LET id == next_shape_id(shapes)
    IN Append(shapes, [id |-> id, name |-> "Table " \o ToString(id - 1),
                       kind |-> "tbl", geom |-> g, text |-> "", image |-> "",
                       cells |-> [r \in 1..rows |-> [c \in 1..cols |-> ""]]])

\* a removal that leaves the shape in the tree
remove_nothing(shapes, pos) == shapes

\* sp.getparent().remove(sp)
remove_shape(shapes, pos) == RemoveAt(shapes, pos)

\* slide.shapes._spTree.insert(2, element) of an element already in the
\* tree: the element moves to child index 2, the first shape position
insert_at_2(shapes, pos) == <<shapes[pos]>> \o RemoveAt(shapes, pos)

-----------------------------------------------------------------------------
(* The shape index *)

FirstIndex(shapes, n) ==
    CHOOSE i \in 0..(Len(shapes) - 1) :
        /\ shapes[i + 1].name = n
        /\ \A j \in 0..(i - 1) : shapes[j + 1].name # n

LastIndex(shapes, n) ==
    CHOOSE i \in 0..(Len(shapes) - 1) :
        /\ shapes[i + 1].name = n
        /\ \A j \in (i + 1)..(Len(shapes) - 1) : shapes[j + 1].name # n

\* __get_elements_per_slide, the mapping it returns: every assignment
\* overwrites, so a name carried twice keeps its last index
get_elements_per_slide(sl) ==
    [s \in DOMAIN sl |-> [n \in ShapeNames(sl[s]) |-> LastIndex(sl[s], n)]]

\* json.dump of the mapping: the integer slide keys become strings
json_dump(el) ==
    [k \in {ToString(s) : s \in DOMAIN el} |->
        el[CHOOSE s \in DOMAIN el : ToString(s) = k]]

\* __update_elements_of_slide, first loop: a shape whose name is not yet a
\* key is recorded at its index (the first shape of that name wins, the
\* later ones find the key present)
add_new_shapes(el_s, shapes) ==
    [n \in DOMAIN el_s \cup ShapeNames(shapes) |->
        IF n \in DOMAIN el_s THEN el_s[n] ELSE FirstIndex(shapes, n)]

\* a second loop that deletes nothing
keep_stale_names(el_s, shapes) == el_s

\* __update_elements_of_slide, second loop: keys that name no live shape go
remove_stale_names(el_s, shapes) ==
    [n \in {m \in DOMAIN el_s : m \in ShapeNames(shapes)} |-> el_s[n]]

\* The handler object as a value: o.slides, o.elements, o.elements_file,
\* o.output_file
Self == [slides |-> slides, elements |-> elements,
         elements_file |-> elements_file, output_file |-> output_file]

\* a reconcile that updates the mapping and leaves elements.json as it was
update_elements_in_memory(o, s) ==
    [o EXCEPT !.elements[s] =
         remove_stale_names(add_new_shapes(o.elements[s], o.slides[s]),
                            o.slides[s])]

\* __update_elements_of_slide(slide_number), slide_number valid
update_elements_of_slide(o, s) ==
    LET el == [o.elements EXCEPT ![s] =
                   remove_stale_names(add_new_shapes(o.elements[s], o.slides[s]),
                                      o.slides[s])]
    IN [o EXCEPT !.elements = el, !.elements_file = json_dump(el)]

\* save_presentation
save_presentation(o) == [o EXCEPT !.output_file = o.slides]

-----------------------------------------------------------------------------
(* Python values read from a workbook, and their string forms *)

\* A cell value as the spreadsheet bridge returns it: None, a float (held
\* here in thousandths) or a text.
PyNone == [t |-> "none", v |-> 0, s |-> ""]
PyFloat(v) == [t |-> "float", v |-> v, s |-> ""]
PyText(s) == [t |-> "str", v |-> 0, s |-> s]

Digit(d) == ToString(d)

\* the decimals of str(float): at least one, no trailing zeros
FractionStr(fp) ==
    IF fp % 100 = 0 THEN Digit(fp \div 100)
    ELSE IF fp % 10 = 0 THEN Digit(fp \div 100) \o Digit((fp \div 10) % 10)
    ELSE Digit(fp \div 100) \o Digit((fp \div 10) % 10) \o Digit(fp % 10)

\* str(x) of the float x = v / 1000
float_str(v) ==
    LET a == IF v < 0 THEN 0 - v ELSE v
    IN (IF v < 0 THEN "-" ELSE "") \o ToString(a \div 1000) \o "."
       \o FractionStr(a % 1000)

\* str(value)
str(value) ==
    CASE value.t = "none" -> "None"
      [] value.t = "float" -> float_str(value.v)
      [] OTHER -> value.s

\* The floats of the model, in thousandths.  Python rounds the binary value
\* of a float: a decimal tie is a true tie only when the value is a
\* multiple of 1/8, so the ties kept here for round(x, 2) are 0.125 and
\* 0.375; the ties of round(x, 0) (1.5, 2.5, 3.5) are all exact.
Numbers == {-1500, 0, 125, 375, 500, 994, 996, 1000, 1004, 1500, 1600, 2500, 3500}

\* float(s): the strings of the model that Python reads as a float are the
\* string forms of Numbers; any other string raises ValueError
float_of(s) ==
    IF \E v \in Numbers : float_str(v) = s
    THEN [ok |-> TRUE, v |-> CHOOSE v \in Numbers : float_str(v) = s]
    ELSE [ok |-> FALSE, v |-> 0]

\* round(): to the nearest multiple of unit, ties to the even multiple
round_half_even(v, unit) ==
    LET q == v \div unit
        r == v % unit
    IN IF 2 * r < unit THEN q
       ELSE IF 2 * r > unit THEN q + 1
       ELSE IF q % 2 = 0 THEN q ELSE q + 1

\* The rounding of add_table_from_excel_range: float(value), then two
\* decimals below 1 and an integer otherwise; ok is FALSE when float()
\* raises
round_value(value) ==
    LET f == float_of(value)
    IN IF ~f.ok THEN [ok |-> FALSE, text |-> value]
       ELSE IF f.v < 1000
            THEN [ok |-> TRUE, text |-> float_str(10 * round_half_even(f.v, 10))]
            ELSE [ok |-> TRUE, text |-> ToString(round_half_even(f.v, 1000))]

-----------------------------------------------------------------------------
(* __separate_row_column: strings are sequences of one-character strings *)

Letters == {"A", "B", "C", "D", "x"}
DigitChars == {"0", "1", "2", "3", "4", "5"}

DigitValue(c) == CHOOSE d \in 0..9 : ToString(d) = c

\* int(digits)
RECURSIVE int_of(_)
int_of(ds) ==
    IF ds = <<>> THEN 0
    ELSE 10 * int_of(SubSeq(ds, 1, Len(ds) - 1)) + DigitValue(ds[Len(ds)])

\* the length of the longest prefix of str made of characters of set
RECURSIVE RunLength(_, _)
RunLength(chars, set) ==
    IF chars # <<>> /\ Head(chars) \in set THEN 1 + RunLength(Tail(chars), set)
    ELSE 0

\* re.match(r"([A-Z]+)([0-9]+)", cell_reference, re.I): anchored at the
\* start only; both groups are greedy
separate_row_column(ref) ==
    LET nl == RunLength(ref, Letters)
        nd == RunLength(SubSeq(ref, nl + 1, Len(ref)), DigitChars)
    IN IF nl >= 1 /\ nd >= 1
       THEN [kind |-> "pair", column |-> SubSeq(ref, 1, nl),
             row |-> int_of(SubSeq(ref, nl + 1, nl + nd))]
       ELSE [kind |-> "ValueError", column |-> <<>>, row |-> 0]

-----------------------------------------------------------------------------
(* like_operator and the logo selection of __init__ *)

\* pattern.replace('%', '.*').replace('_', '.') matched by re.match: "%"
\* stands for any run of characters, "_" for one character, and the match
\* is anchored at the start of the string only
RECURSIVE like_operator(_, _)
like_operator(pattern, string) ==
    IF pattern = <<>> THEN TRUE
    ELSE IF Head(pattern) = "%"
         THEN \E k \in 0..Len(string) :
                  like_operator(Tail(pattern), SubSeq(string, k + 1, Len(string)))
         ELSE /\ string # <<>>
              /\ Head(pattern) = "_" \/ Head(pattern) = Head(string)
              /\ like_operator(Tail(pattern), Tail(string))

LogoPattern == <<"%", "o", "g", "o", "%">>

NoPath == [stem |-> <<>>, suffix |-> "", none |-> TRUE]
FilePath(stem, suffix) == [stem |-> stem, suffix |-> suffix, none |-> FALSE]

\* the loop of __init__ over the image list: every matching .png file
\* assigns logo_path, none of them ends the loop
RECURSIVE select_logo(_, _)
select_logo(imgs, current) ==
    IF imgs = <<>> THEN current
    ELSE select_logo(Tail(imgs),
                     IF Head(imgs).suffix = ".png"
                        /\ like_operator(LogoPattern, Head(imgs).stem)
                     THEN Head(imgs) ELSE current)

-----------------------------------------------------------------------------
(* Lookup and z-order *)

\* __get_shape_and_slide(slide_number, shape_name).  kind is "pair" (the
\* shape at position pos of the slide, and the slide), "None", or the
\* exception raised: self.pp.slides[slide_number] raises IndexError out of
\* range; a name that is no key makes shape_id the default string, and
\* slide.shapes[<string>] raises TypeError; the comparison with the default
\* string is made on shape_name.
get_shape_and_slide(o, s, n) ==
    IF s \notin DOMAIN o.slides THEN [kind |-> "IndexError", pos |-> 0]
    ELSE IF n = NotFound THEN [kind |-> "None", pos |-> 0]
    ELSE IF n \notin DOMAIN o.elements[s] THEN [kind |-> "TypeError", pos |-> 0]
    ELSE IF o.elements[s][n] >= Len(o.slides[s])
         THEN [kind |-> "IndexError", pos |-> 0]
    ELSE [kind |-> "pair", pos |-> o.elements[s][n] + 1]

\* "shape, slide = self.__get_shape_and_slide(...)": unpacking None raises
\* TypeError, an exception of the lookup propagates
unpack(r) ==
    IF r.kind = "pair" THEN "ok"
    ELSE IF r.kind = "None" THEN "TypeError"
    ELSE r.kind

\* __bring_shape_to_foreground(slide_number, shape_name).  The shape proxy
\* has no z_order property: the assignment sets an attribute on the proxy
\* object and leaves the document as it is.
bring_shape_to_foreground(o, s, n) ==
    LET r == get_shape_and_slide(o, s, n)
    IN IF unpack(r) # "ok" THEN [o |-> o, outcome |-> unpack(r)]
       ELSE [o |-> save_presentation(update_elements_of_slide(o, s)),
             outcome |-> "ok"]

\* what every mutator does after its edit: bring to the foreground when
\* asked, then reconcile and save; fg is the outcome of the foreground step
finish(fg, s, found, new_id) ==
    IF fg.outcome # "ok"
    THEN [o |-> fg.o, outcome |-> fg.outcome, found |-> found, new_id |-> new_id]
    ELSE [o |-> save_presentation(update_elements_of_slide(fg.o, s)),
          outcome |-> "ok", found |-> found, new_id |-> new_id]

raised(o, outcome, found, new_id) ==
    [o |-> o, outcome |-> outcome, found |-> found, new_id |-> new_id]

no_foreground(o) == [o |-> o, outcome |-> "ok"]

-----------------------------------------------------------------------------
(* The mutators: each yields the object after the call and the outcome *)

\* add_logo(image_path, shape_name, slide_number, set_to_foreground)
add_logo(o, image_path, n, s, set_to_foreground) ==
    LET r == get_shape_and_slide(o, s, n)
    IN IF unpack(r) # "ok" THEN raised(o, unpack(r), 0, 0)
       ELSE LET shape == o.slides[s][r.pos]
                o1 == [o EXCEPT !.slides[s] = add_picture(@, image_path, shape.geom)]
            IN finish(IF set_to_foreground
                      THEN bring_shape_to_foreground(o1, s, n)
                      ELSE no_foreground(o1),
                      s, r.pos, next_shape_id(o.slides[s]))

\* add_costumer_name(costumer_name, slide_number, shape_name, set_to_foreground)
add_costumer_name(o, costumer_name, s, n, set_to_foreground) ==
    LET r == get_shape_and_slide(o, s, n)
    IN IF unpack(r) # "ok" THEN raised(o, unpack(r), 0, 0)
       ELSE IF o.slides[s][r.pos].kind # "sp"
            THEN raised(o, "ValueError: The shape is not a text frame.", r.pos, 0)
       ELSE LET o1 == [o EXCEPT !.slides[s][r.pos].text = costumer_name]
            IN finish(IF set_to_foreground
                      THEN bring_shape_to_foreground(o1, s, n)
                      ELSE no_foreground(o1),
                      s, r.pos, 0)

\* the cells add_table writes: the column names, then str(value) row by row
data_frame_cells(table) ==
    <<table.columns>> \o
    [i \in 1..Len(table.rows) |->
        [c \in 1..Len(table.columns) |-> str(table.rows[i][c])]]

set_cells(shapes, pos, cells) == [shapes EXCEPT ![pos].cells = cells]

\* add_table(title, slide_number, table, shape_name, set_to_foreground)
add_table(o, s, table, n, set_to_foreground) ==
    LET r == get_shape_and_slide(o, s, n)
    IN IF unpack(r) # "ok" THEN raised(o, unpack(r), 0, 0)
       ELSE LET shape == o.slides[s][r.pos]
                removed == remove_shape(o.slides[s], r.pos)
                added == new_table(removed, Len(table.rows) + 1,
                                   Len(table.columns), shape.geom)
                o1 == [o EXCEPT !.slides[s] =
                           set_cells(added, Len(added), data_frame_cells(table))]
            IN finish(IF set_to_foreground
                      THEN bring_shape_to_foreground(o1, s, n)
                      ELSE no_foreground(o1),
                      s, r.pos, next_shape_id(removed))

\* add_chart_from_file(slide_number, shape_name, chart_path_with_name_and_type,
\* set_to_foreground); the chart file exists
add_chart_from_file(o, s, n, chart_path, set_to_foreground) ==
    LET r == get_shape_and_slide(o, s, n)
    IN IF unpack(r) # "ok" THEN raised(o, unpack(r), 0, 0)
       ELSE LET shape == o.slides[s][r.pos]
                removed == remove_shape(o.slides[s], r.pos)
                added == add_picture(removed, chart_path, shape.geom)
                o1 == [o EXCEPT !.slides[s] = added]
            IN finish(IF set_to_foreground
                      THEN bring_shape_to_foreground(o1, s, n)
                      ELSE no_foreground([o1 EXCEPT !.slides[s] =
                                              insert_at_2(added, Len(added))]),
                      s, r.pos, next_shape_id(removed))

\* "slide.shapes._spTree.insert(2, table_shape._element)", table_shape being
\* the Table object (add_table(...).table), not the graphic frame that
\* holds it.  What the Table object exposes is the library's business:
\* has_element FALSE is the attribute missing (AttributeError), TRUE is the
\* attribute giving the inserted element, which then moves.
insert_table_at_2(o, s, has_element) ==
    IF has_element
    THEN no_foreground([o EXCEPT !.slides[s] = insert_at_2(@, Len(@))])
    ELSE [o |-> o, outcome |-> "AttributeError"]

\* add_table_from_excel(slide_number, shape_name, path_to_excel_file,
\* sheet_number, set_to_foreground); used_range is the sheet's used range as
\* a list of rows
add_table_from_excel(o, s, n, used_range, set_to_foreground, has_element) ==
    LET r == get_shape_and_slide(o, s, n)
    IN IF unpack(r) # "ok" THEN raised(o, unpack(r), 0, 0)
       ELSE LET shape == o.slides[s][r.pos]
                added == new_table(o.slides[s], Len(used_range),
                                   Len(used_range[1]), shape.geom)
                cells == [i \in 1..Len(used_range) |->
                             [c \in 1..Len(used_range[i]) |-> str(used_range[i][c])]]
                o1 == [o EXCEPT !.slides[s] = set_cells(added, Len(added), cells)]
            IN finish(IF set_to_foreground
                      THEN bring_shape_to_foreground(o1, s, n)
                      ELSE insert_table_at_2(o1, s, has_element),
                      s, r.pos, next_shape_id(o.slides[s]))

-----------------------------------------------------------------------------
(* add_table_from_excel_range *)

\* ord() and chr() on the column letters of the model's workbooks
Ord == ("A" :> 65) @@ ("B" :> 66) @@ ("C" :> 67) @@ ("D" :> 68)
Chr(k) == CHOOSE c \in DOMAIN Ord : Ord[c] = k

\* sheet[address].value: a cell the sheet does not hold is empty
sheet_value(sheet, address) ==
    IF address \in DOMAIN sheet THEN sheet[address] ELSE PyNone

\* table_data: str() of every cell of the range, row by row
read_range(sheet, start_column, start_row, end_column, end_row) ==
    [i \in 1..(end_row - start_row + 1) |->
        [c \in 1..(Ord[end_column] - Ord[start_column] + 1) |->
            str(sheet_value(sheet, Chr(Ord[start_column] + c - 1)
                                   \o ToString(start_row + i - 1)))]]

\* round_columns: None, or a list of column indices
NoColumns == [given |-> FALSE, cols |-> {}]
Columns(cols) == [given |-> TRUE, cols |-> cols]

\* the text the skip_header branch gives the cell for value at column
\* col_idx; ok is FALSE when float(value) raises
skip_header_cell(value, col_idx, is_round, round_columns) ==
    IF value # "None"
    THEN IF is_round /\ round_columns.given /\ col_idx \in round_columns.cols
         THEN round_value(value)
         ELSE [ok |-> TRUE, text |-> value]
    ELSE [ok |-> TRUE, text |-> ""]

\* an other branch that treats row 0 like every row
header_row_kept(value, row_idx, col_idx, is_round, round_columns) ==
    skip_header_cell(value, col_idx, is_round, round_columns)

\* the same in the other branch, which also blanks row 0
with_header_cell(value, row_idx, col_idx, is_round, round_columns) ==
    IF value # "None" /\ row_idx # 0
    THEN IF is_round /\ round_columns.given /\ col_idx \in round_columns.cols
         THEN round_value(value)
         ELSE [ok |-> TRUE, text |-> value]
    ELSE [ok |-> TRUE, text |-> ""]

range_cell(table_data, row_idx, col_idx, skip_header, is_round, round_columns) ==
    IF skip_header
    THEN skip_header_cell(table_data[row_idx + 1][col_idx + 1], col_idx,
                          is_round, round_columns)
    ELSE with_header_cell(table_data[row_idx + 1][col_idx + 1], row_idx, col_idx,
                          is_round, round_columns)

\* The two nested loops over table_data, in their order: k counts the cells
\* row by row.  failed_at is the first cell whose rounding raises (0: none);
\* the cells before it are written, the loop ends there.
fill_range(table_data, skip_header, is_round, round_columns) ==
    LET rows == Len(table_data)
        cols == Len(table_data[1])
        k(row_idx, col_idx) == row_idx * cols + col_idx + 1
        cell(row_idx, col_idx) ==
            range_cell(table_data, row_idx, col_idx, skip_header, is_round,
                       round_columns)
        failing == {k(q[1], q[2]) :
                       q \in {p \in (0..(rows - 1)) \X (0..(cols - 1)) :
                                 ~cell(p[1], p[2]).ok}}
        failed_at == IF failing = {} THEN 0
                     ELSE CHOOSE m \in failing : \A j \in failing : m <= j
        offset == IF skip_header THEN 1 ELSE 0
    IN [failed_at |-> failed_at,
        cells |-> [tr \in 1..(rows + offset) |->
                      [tc \in 1..cols |->
                          IF tr - offset >= 1
                             /\ (failed_at = 0
                                 \/ k(tr - offset - 1, tc - 1) < failed_at)
                          THEN cell(tr - offset - 1, tc - 1).text
                          ELSE ""]]]

\* add_table_from_excel_range(slide_number, shape_name, path_to_excel_file,
\* sheet_number, start_cell, end_cell, font_size, skip_header,
\* set_to_foreground, is_round, round_columns); start_cell names the upper
\* left and end_cell the lower right cell of a range of the sheet
add_table_from_excel_range(o, s, n, sheet, start_cell, end_cell, skip_header, set_to_foreground, is_round, round_columns, has_element) ==
    LET r == get_shape_and_slide(o, s, n)
        start == separate_row_column(start_cell)
        end == separate_row_column(end_cell)
    IN IF unpack(r) # "ok" THEN raised(o, unpack(r), 0, 0)
       ELSE IF start.kind # "pair" \/ end.kind # "pair"
            THEN raised(o, "ValueError: Invalid cell reference", r.pos, 0)
       ELSE IF Len(start.column) # 1 \/ Len(end.column) # 1
            THEN raised(o, "TypeError", r.pos, 0)
       ELSE LET table_data == read_range(sheet, start.column[1], start.row,
                                         end.column[1], end.row)
                shape == o.slides[s][r.pos]
                removed == remove_shape(o.slides[s], r.pos)
                filled == fill_range(table_data, skip_header, is_round,
                                     round_columns)
                added == new_table(removed, Len(filled.cells),
                                   Len(table_data[1]), shape.geom)
                o1 == [o EXCEPT !.slides[s] =
                           set_cells(added, Len(added), filled.cells)]
            IN IF filled.failed_at # 0
               THEN raised(o1, "ValueError: could not convert string to float",
                           r.pos, next_shape_id(removed))
               ELSE finish(IF set_to_foreground
                           THEN bring_shape_to_foreground(o1, s, n)
                           ELSE insert_table_at_2(o1, s, has_element),
                           s, r.pos, next_shape_id(removed))

-----------------------------------------------------------------------------
(* Inputs of the calls *)

\* slide numbers passed by callers: the slides of the deck and one past them
SlideNumbers == DOMAIN slides \cup {Cardinality(DOMAIN slides)}

\* shape names passed to a lookup on slide s: the names the index holds, a
\* name it does not hold, and the default string itself
LookupNames(s) ==
    (IF s \in DOMAIN slides THEN DOMAIN elements[s] ELSE {})
    \cup {"missing", NotFound}

\* shape names passed to the mutators
ShapeNameInputs(s) == DOMAIN elements[s] \cup {"missing"}

\* the data frames given to add_table
DataFrames ==
    { [columns |-> <<"KPI", "Value">>,
       rows |-> << <<PyText("share"), PyFloat(500)>> >>] }

\* the used ranges read by add_table_from_excel
UsedRanges ==
    { << <<PyText("KPI"), PyText("Value")>>, <<PyText("share"), PyNone>> >> }

\* the workbook sheets read by add_table_from_excel_range
SheetA ==
    ("A1" :> PyText("KPI")) @@ ("B1" :> PyText("Value")) @@
    ("A2" :> PyText("share")) @@ ("B2" :> PyFloat(500)) @@
    ("A3" :> PyText("count")) @@ ("B3" :> PyFloat(1600))

SheetB ==
    ("A1" :> PyText("KPI")) @@ ("B1" :> PyText("Value")) @@
    ("A2" :> PyText("share")) @@ ("B2" :> PyText("abc")) @@
    ("B3" :> PyFloat(1000))

SheetC ==
    ("A1" :> PyFloat(125)) @@ ("B1" :> PyFloat(2500)) @@
    ("A2" :> PyFloat(996)) @@ ("B2" :> PyFloat(-1500)) @@
    ("A3" :> PyText("1.6")) @@ ("B3" :> PyText("None"))

Sheets == {SheetA, SheetB, SheetC}

\* the (start_cell, end_cell) pairs of the requests: ranges of the sheets,
\* one with text after the end cell, and one malformed reference
RangeInputs ==
    { << <<"A", "1">>, <<"B", "3">> >>,
      << <<"B", "2">>, <<"B", "3">> >>,
      << <<"A", "2">>, <<"B", "2">> >>,
      << <<"A", "1">>, <<"B", "2", ":", "C", "3">> >>,
      << <<"1", "A">>, <<"B", "2">> >> }

RoundColumnInputs == {NoColumns, Columns({1}), Columns({0, 1})}

-----------------------------------------------------------------------------
(* Actions *)

Mutators == {"add_logo", "add_costumer_name", "add_table",
             "add_chart_from_file", "add_table_from_excel",
             "add_table_from_excel_range"}

\* the object takes the state a call left it in; last records the call
Returns(op, s, n, fg, res) ==
    /\ slides' = res.o.slides
    /\ elements' = res.o.elements
    /\ elements_file' = res.o.elements_file
    /\ output_file' = res.o.output_file
    /\ last' = [op |-> op, slide_number |-> s, shape_name |-> n,
                set_to_foreground |-> fg, outcome |-> res.outcome,
                found |-> res.found, new_id |-> res.new_id,
                completed |-> last.completed
                              /\ (op \in Mutators => res.outcome = "ok")]
    /\ calls' = calls + 1
    /\ UNCHANGED <<constructed, images, logo_path, cell_reference, parsed>>

\* a handler that can take another call
Callable == constructed /\ calls < MaxCalls

Find ==
    \E s \in SlideNumbers : \E n \in LookupNames(s) :
        /\ Callable
        /\ LET r == get_shape_and_slide(Self, s, n)
           IN Returns("get_shape_and_slide", s, n, FALSE,
                      raised(Self, r.kind, r.pos, 0))
        /\ UNCHANGED request

AddLogo ==
    \E s \in DOMAIN slides : \E n \in ShapeNameInputs(s) : \E fg \in BOOLEAN :
        /\ Callable
        /\ Returns("add_logo", s, n, fg, add_logo(Self, "logo.png", n, s, fg))
        /\ UNCHANGED request

AddCostumerName ==
    \E s \in DOMAIN slides : \E n \in ShapeNameInputs(s) : \E fg \in BOOLEAN :
        /\ Callable
        /\ Returns("add_costumer_name", s, n, fg,
                   add_costumer_name(Self, "Acme", s, n, fg))
        /\ UNCHANGED request

AddTable ==
    \E s \in DOMAIN slides : \E n \in ShapeNameInputs(s) : \E fg \in BOOLEAN :
    \E table \in DataFrames :
        /\ Callable
        /\ Returns("add_table", s, n, fg, add_table(Self, s, table, n, fg))
        /\ UNCHANGED request

AddChartFromFile ==
    \E s \in DOMAIN slides : \E n \in ShapeNameInputs(s) : \E fg \in BOOLEAN :
        /\ Callable
        /\ Returns("add_chart_from_file", s, n, fg,
                   add_chart_from_file(Self, s, n, "chart.png", fg))
        /\ UNCHANGED request

AddTableFromExcel ==
    \E s \in DOMAIN slides : \E n \in ShapeNameInputs(s) : \E fg \in BOOLEAN :
    \E used_range \in UsedRanges : \E has_element \in BOOLEAN :
        /\ Callable
        /\ Returns("add_table_from_excel", s, n, fg,
                   add_table_from_excel(Self, s, n, used_range, fg, has_element))
        /\ UNCHANGED request

\* add_table_from_excel_range on the range A1:B2 of SheetA, without rounding
AddTableFromExcelRange ==
    \E s \in DOMAIN slides : \E n \in ShapeNameInputs(s) : \E fg \in BOOLEAN :
    \E skip_header \in BOOLEAN : \E has_element \in BOOLEAN :
        /\ Callable
        /\ Returns("add_table_from_excel_range", s, n, fg,
                   add_table_from_excel_range(Self, s, n, SheetA,
                       <<"A", "1">>, <<"B", "2">>, skip_header, fg, FALSE,
                       NoColumns, has_element))
        /\ UNCHANGED request

\* add_table_from_excel_range with the arguments of the pending request
RequestedRange ==
    /\ Callable
    /\ request.pending
    /\ Returns("add_table_from_excel_range", request.slide_number,
               request.shape_name, request.set_to_foreground,
               add_table_from_excel_range(Self, request.slide_number,
                   request.shape_name, request.sheet, request.start_cell,
                   request.end_cell, request.skip_header,
                   request.set_to_foreground, request.is_round,
                   request.round_columns, request.has_element))
    /\ request' = [request EXCEPT !.pending = FALSE]

\* __separate_row_column(cell_reference)
Parse ==
    /\ parsed.kind = "not called"
    /\ parsed' = separate_row_column(cell_reference)
    /\ UNCHANGED <<constructed, images, logo_path, slides, elements,
                   elements_file, output_file, cell_reference, calls, request,
                   last>>

-----------------------------------------------------------------------------
(* Construction, and the specifications *)

NotCalled == [kind |-> "not called", column |-> <<>>, row |-> 0]

NoCall == [op |-> "none", slide_number |-> 0, shape_name |-> "",
           set_to_foreground |-> FALSE, outcome |-> "ok", found |-> 0,
           new_id |-> 0, completed |-> TRUE]

NoRequest ==
    [pending |-> FALSE, slide_number |-> 0, shape_name |-> "", sheet |-> <<>>,
     start_cell |-> <<>>, end_cell |-> <<>>, skip_header |-> FALSE,
     set_to_foreground |-> FALSE, is_round |-> FALSE,
     round_columns |-> NoColumns, has_element |-> FALSE]

\* the image files given to the constructor, in lists of up to MaxImages
ImageFiles ==
    { FilePath(<<"l", "o", "g", "o">>, ".png"),
      FilePath(<<"o", "g", "o", "2">>, ".png"),
      FilePath(<<"L", "O", "G", "O">>, ".png"),
      FilePath(<<"b", "a", "n">>, ".png"),
      FilePath(<<"l", "o", "g", "o">>, ".jpg") }

MaxImages == 3

ImageLists == UNION {[1..k -> ImageFiles] : k \in 0..MaxImages}

\* the deck the specifications of single calls start from
Deck == << <<"logo", "costumer">>, <<"table", "note">> >>

OneLogo == <<FilePath(<<"l", "o", "g", "o">>, ".png")>>

\* character strings of up to MaxRefLen characters, as cell references
RefAlphabet == {"C", "D", "x", "4", "5", ":"}

MaxRefLen == 5

CellReferences == UNION {[1..k -> RefAlphabet] : k \in 0..MaxRefLen}

\* the requests of add_table_from_excel_range: the placeholder "table" of
\* the second slide, every sheet, range and flag
RangeRequests ==
    { [pending |-> TRUE, slide_number |-> 1, shape_name |-> "table",
       sheet |-> sheet, start_cell |-> cells[1], end_cell |-> cells[2],
       skip_header |-> skip_header, set_to_foreground |-> fg,
       is_round |-> is_round, round_columns |-> round_columns,
       has_element |-> has_element] :
        sheet \in Sheets, cells \in RangeInputs, skip_header \in BOOLEAN,
        fg \in BOOLEAN, is_round \in BOOLEAN,
        round_columns \in RoundColumnInputs, has_element \in BOOLEAN }

\* the state __init__(powerpoint_images_dir, costumer_name, target_dir)
\* leaves: the template deck t loaded, the index built and written, the logo
\* selected
Constructed(imgs, t) ==
    /\ constructed = TRUE
    /\ images = imgs
    /\ logo_path = select_logo(imgs, NoPath)
    /\ slides = LoadTemplate(t)
    /\ elements = get_elements_per_slide(LoadTemplate(t))
    /\ elements_file = json_dump(get_elements_per_slide(LoadTemplate(t)))
    /\ output_file = <<>>

\* __init__ as a step: the object comes into being
Construct ==
    \E t \in Templates :
        /\ ~constructed
        /\ constructed' = TRUE
        /\ logo_path' = select_logo(images, NoPath)
        /\ slides' = LoadTemplate(t)
        /\ elements' = get_elements_per_slide(LoadTemplate(t))
        /\ elements_file' = json_dump(get_elements_per_slide(LoadTemplate(t)))
        /\ UNCHANGED <<images, output_file, cell_reference, parsed, calls,
                       request, last>>

Idle ==
    /\ cell_reference = <<>>
    /\ parsed = NotCalled
    /\ calls = 0
    /\ request = NoRequest
    /\ last = NoCall

\* a constructed handler on one of the template decks
Init ==
    /\ \E t \in Templates : Constructed(OneLogo, t)
    /\ Idle

Next ==
    \/ Find
    \/ AddLogo
    \/ AddCostumerName
    \/ AddTable
    \/ AddChartFromFile
    \/ AddTableFromExcel
    \/ AddTableFromExcelRange

Spec == Init /\ [][Next]_vars

\* one add_table_from_excel_range call, its arguments drawn from RangeRequests
InitRange ==
    /\ Constructed(OneLogo, Deck)
    /\ cell_reference = <<>>
    /\ parsed = NotCalled
    /\ calls = 0
    /\ request \in RangeRequests
    /\ last = NoCall

SpecRange == InitRange /\ [][RequestedRange]_vars

\* one __separate_row_column call, its argument drawn from CellReferences
InitParse ==
    /\ Constructed(OneLogo, Deck)
    /\ cell_reference \in CellReferences
    /\ parsed = NotCalled
    /\ calls = 0
    /\ request = NoRequest
    /\ last = NoCall

SpecParse == InitParse /\ [][Parse]_vars

\* the constructor, its image list drawn from ImageLists
InitNew ==
    /\ constructed = FALSE
    /\ images \in ImageLists
    /\ logo_path = NoPath
    /\ slides = <<>>
    /\ elements = <<>>
    /\ elements_file = <<>>
    /\ output_file = <<>>
    /\ Idle

SpecLogo == InitNew /\ [][Construct]_vars

-----------------------------------------------------------------------------
(* Properties *)

LastSlide == slides[last.slide_number]

NamesMatch(s) == DOMAIN elements[s] = ShapeNames(slides[s])

\* C1: once a mutator has run reconcile for its slide, the names the index
\* records for that slide are exactly the names of the shapes on it; and
\* while every mutator so far has returned, that holds for every slide.
C1_ReconciledNamesMatch ==
    /\ (last.op \in Mutators /\ last.outcome = "ok") =>
           NamesMatch(last.slide_number)
    /\ (constructed /\ last.completed) =>
           \A s \in DOMAIN slides : NamesMatch(s)

\* a second call has replaced a placeholder by a table: the placeholder's
\* name has left the index and the table's name has entered it
C1_Witness ==
    /\ calls = 2
    /\ last.op = "add_table"
    /\ last.outcome = "ok"
    /\ last.shape_name \notin DOMAIN elements[last.slide_number]
    /\ \E i \in 1..Len(LastSlide) :
           /\ LastSlide[i].id = last.new_id
           /\ LastSlide[i].name \in DOMAIN elements[last.slide_number]

\* C2: a lookup on a valid slide of a name the index does not record returns
\* None (it neither raises nor returns a shape), and a lookup of a recorded
\* name returns the pair.
C2_FindSignalsNotFound ==
    (last.op = "get_shape_and_slide" /\ last.slide_number \in DOMAIN slides) =>
        IF last.shape_name \in DOMAIN elements[last.slide_number]
        THEN last.outcome = "pair"
        ELSE last.outcome = "None"

IndexAccurate(s) ==
    \A n \in DOMAIN elements[s] :
        /\ elements[s][n] < Len(slides[s])
        /\ slides[s][elements[s][n] + 1].name = n

DistinctNames(s) == Cardinality(ShapeNames(slides[s])) = Len(slides[s])

\* C3: after the build and any sequence of mutators that each ended in
\* reconcile, every recorded name maps to a position inside its slide at
\* which the shape carries that name (stated for the slides on which no two
\* shapes share a name).
C3_IndexRelocates ==
    (constructed /\ last.completed) =>
        \A s \in DOMAIN slides : DistinctNames(s) => IndexAccurate(s)

SameGeometry(a, b) ==
    /\ a.geom.left = b.geom.left
    /\ a.geom.top = b.geom.top
    /\ a.geom.width = b.geom.width
    /\ a.geom.height = b.geom.height

\* the step is a call of one of ops that found a shape and inserted one
Inserting(ops) ==
    /\ calls' = calls + 1
    /\ last'.op \in ops
    /\ last'.new_id > 0

C4_Replaced ==
    LET old == slides[last'.slide_number]
        new == slides'[last'.slide_number]
    IN (/\ Inserting({"add_table", "add_table_from_excel_range"})
        /\ old[last'.found].name = last'.shape_name)
       => \E p \in 1..Len(new) :
              /\ new[p].kind = "tbl"
              /\ new[p].id = last'.new_id
              /\ SameGeometry(new[p], old[last'.found])
              /\ RemoveAt(new, p) = RemoveAt(old, last'.found)

\* C4: add_table and add_table_from_excel_range, called with a name the
\* index locates correctly, take the placeholder off the slide and put one
\* table with the placeholder's left, top, width and height on it; the
\* other shapes stay, in their order.
C4_TableReplacesPlaceholder == [][C4_Replaced]_vars

\* add_table_from_excel_range has replaced a placeholder by a table that now
\* stands first on the slide
C4_Witness ==
    /\ last.op = "add_table_from_excel_range"
    /\ last.outcome = "ok"
    /\ ~last.set_to_foreground
    /\ LastSlide[1].kind = "tbl"
    /\ LastSlide[1].id = last.new_id
    /\ last.shape_name \notin ShapeNames(LastSlide)

C5_Step ==
    LET old == slides[last'.slide_number]
        new == slides'[last'.slide_number]
    IN /\ Inserting({"add_table", "add_chart_from_file", "add_table_from_excel",
                     "add_table_from_excel_range"})
          => /\ Len(new) = Len(old)
             /\ \E p \in 1..Len(new) :
                    RemoveAt(new, p) = RemoveAt(old, last'.found)
       /\ Inserting({"add_logo"})
          => /\ Len(new) = Len(old) + 1
             /\ SubSeq(new, 1, Len(old)) = old

\* C5: every chart and table path deletes the placeholder before it inserts,
\* so the slide keeps its number of shapes; add_logo deletes nothing, so the
\* placeholder stays and the slide has one shape more.
C5_DeleteVersusOverlay == [][C5_Step]_vars

C6_Step ==
    LET old == slides[last'.slide_number]
        new == slides'[last'.slide_number]
    IN (Inserting(Mutators) /\ last'.set_to_foreground)
       => /\ last'.outcome = "ok"
          /\ new[1].id = last'.new_id
          /\ Tail(new) \in {old, RemoveAt(old, last'.found)}

\* C6: a replacement called with set_to_foreground returns normally with the
\* inserted shape at index 0 of the slide and the other shapes in their
\* order.
C6_ForegroundIsIndexZero == [][C6_Step]_vars

-----------------------------------------------------------------------------
(* Properties of one add_table_from_excel_range call (SpecRange) *)

\* table_data of the request
RequestData ==
    read_range(request.sheet, separate_row_column(request.start_cell).column[1],
               separate_row_column(request.start_cell).row,
               separate_row_column(request.end_cell).column[1],
               separate_row_column(request.end_cell).row)

\* the request was served and a table was inserted
Served ==
    /\ ~request.pending
    /\ last.op = "add_table_from_excel_range"
    /\ last.new_id > 0

InsertedTable ==
    LastSlide[CHOOSE p \in 1..Len(LastSlide) : LastSlide[p].id = last.new_id]

\* rounding is asked for column col_idx
Designated(col_idx) ==
    /\ request.is_round
    /\ request.round_columns.given
    /\ col_idx \in request.round_columns.cols

\* the cells the call transcribes: every row, or every row but the first
Transcribed ==
    {q \in (0..(Len(RequestData) - 1)) \X (0..(Len(RequestData[1]) - 1)) :
        request.skip_header \/ q[1] # 0}

Value(q) == RequestData[q[1] + 1][q[2] + 1]

\* the text of the inserted table for cell q of the range
CellText(q) ==
    InsertedTable.cells[q[1] + 1 + (IF request.skip_header THEN 1 ELSE 0)][q[2] + 1]

NonNumeric(value) == value # "None" /\ ~float_of(value).ok

\* C7: a non-numeric value in a column designated for rounding does not end
\* the call: that cell gets the value as it is, and every other transcribed
\* cell is written.
C7_RoundingFailureTolerated ==
    (Served /\ \E q \in Transcribed : Designated(q[2]) /\ NonNumeric(Value(q)))
    => /\ last.outcome # "ValueError: could not convert string to float"
       /\ \A q \in Transcribed :
              CellText(q) =
                  IF Value(q) = "None" THEN ""
                  ELSE IF Designated(q[2]) /\ float_of(Value(q)).ok
                       THEN round_value(Value(q)).text
                       ELSE Value(q)

\* C8: in a call that rounds, a numeric value v of a designated column is
\* written rounded to two decimals when v <= 1 and to an integer when v > 1;
\* a value of another column, or when no rounding is asked, is written as it
\* is.
C8_RoundingRule ==
    (Served /\ last.outcome # "ValueError: could not convert string to float")
    => \A q \in Transcribed :
           Value(q) # "None" =>
               IF Designated(q[2]) /\ float_of(Value(q)).ok
               THEN CellText(q) =
                        IF float_of(Value(q)).v <= 1000
                        THEN float_str(10 * round_half_even(float_of(Value(q)).v, 10))
                        ELSE ToString(round_half_even(float_of(Value(q)).v, 1000))
               ELSE CellText(q) = Value(q)

-----------------------------------------------------------------------------
(* Properties of the parser (SpecParse) and of the constructor (SpecLogo) *)

AllIn(chars, set) == \A i \in 1..Len(chars) : chars[i] \in set

\* the places k at which chars splits into letters and digits, both non-empty
Splits(chars) ==
    {k \in 1..(Len(chars) - 1) :
        /\ AllIn(SubSeq(chars, 1, k), Letters)
        /\ AllIn(SubSeq(chars, k + 1, Len(chars)), DigitChars)}

\* C9: the parser returns (letters, number) exactly for the strings made of
\* letters followed by digits and of nothing else, and raises the format
\* error for every other string.
C9_ParserAcceptsExactly ==
    parsed.kind # "not called" =>
        IF Splits(cell_reference) # {}
        THEN \E k \in Splits(cell_reference) :
                 /\ parsed.kind = "pair"
                 /\ parsed.column = SubSeq(cell_reference, 1, k)
                 /\ parsed.row = int_of(SubSeq(cell_reference, k + 1,
                                               Len(cell_reference)))
        ELSE parsed.kind = "ValueError"

ContainsOgo(stem) ==
    \E i \in 1..(Len(stem) - 2) :
        stem[i] = "o" /\ stem[i + 1] = "g" /\ stem[i + 2] = "o"

\* the candidates (the .png files of the list) whose stem matches
Matching ==
    {i \in 1..Len(images) :
        images[i].suffix = ".png" /\ ContainsOgo(images[i].stem)}

\* C10: the constructor selects the first candidate of the list whose stem
\* contains "ogo", a later one does not replace it; logo_path is None only
\* when no candidate's stem does.
C10_FirstMatchingLogo ==
    constructed =>
        IF Matching = {} THEN logo_path = NoPath
        ELSE logo_path = images[CHOOSE i \in Matching : \A j \in Matching : i <= j]

\* C11: elements.json is rewritten at the end of the build and of every
\* reconcile, so whenever a call on the handler has returned the file holds
\* the serialisation of the in-memory index (json.dump writes the slide
\* numbers as strings); in particular it does after any sequence of mutators
\* that completed.
C11_SideFileMatchesIndex ==
    /\ constructed => elements_file = json_dump(elements)
    /\ (constructed /\ last.completed /\ last.op \in Mutators) =>
           \A s \in DOMAIN elements :
               elements_file[ToString(s)] = elements[s]

\* a second call, a mutator, has completed and the file is no longer the one the build
\* wrote: it records, for the last call's slide, the name of the shape added
C11_Witness ==
    /\ calls = 2
    /\ last.completed
    /\ last.op \in Mutators
    /\ \E i \in 1..Len(LastSlide) :
           /\ LastSlide[i].id = last.new_id
           /\ LastSlide[i].name \in DOMAIN elements_file[ToString(last.slide_number)]

-----------------------------------------------------------------------------
(* The layout of the table add_table_from_excel_range inserts (SpecRange) *)

HeaderOffset == IF request.skip_header THEN 1 ELSE 0

\* C12: for a range of R rows the inserted table has R + 1 rows with
\* skip_header and R rows without; in both modes every cell of its row 0 is
\* empty; range row i goes to table row i + 1 with skip_header and to table
\* row i, for i >= 1 only, without, so that without skip_header the first
\* range row is not transcribed; and a cell whose source value is "None" is
\* empty.
C12_RangeTableLayout ==
    Served =>
        /\ Len(InsertedTable.cells) = Len(RequestData) + HeaderOffset
        /\ \A tc \in 1..Len(RequestData[1]) : InsertedTable.cells[1][tc] = ""
        /\ \A q \in Transcribed : Value(q) = "None" => CellText(q) = ""
        /\ last.outcome # "ValueError: could not convert string to float" =>
               \A q \in Transcribed :
                   Value(q) # "None" =>
                       CellText(q) = IF Designated(q[2])
                                     THEN round_value(Value(q)).text
                                     ELSE Value(q)

\* a call without skip_header has completed on a range of three rows whose
\* first row holds text and which has an empty cell further down
C12_Witness ==
    /\ Served
    /\ last.outcome = "ok"
    /\ ~request.skip_header
    /\ Len(RequestData) = 3
    /\ Len(InsertedTable.cells) = 3
    /\ Value(<<0, 0>>) # "None"
    /\ \E q \in Transcribed : Value(q) = "None"
    /\ \E q \in Transcribed : CellText(q) # ""

====
